---- MODULE Spec2Model ----
(***************************************************************************)
(* Model of the chat backend: the rule-based intent detection, the search  *)
(* decision and the context selection of the chat handler, the upload and  *)
(* cleanup handlers over the in-memory session store, the search service   *)
(* with its keyword fallback, the prompt assembly / citation extraction of *)
(* LLMService, and the model-based classifier of IntentService.            *)
(*                                                                         *)
(* Conventions of the model:                                               *)
(*  - Python strings are TLA+ strings; s[i:j] is SubSeq, len is Len.       *)
(*  - a dict is a function whose DOMAIN is its key set.                    *)
(*  - a missing / None session id is the empty string (the code tests it   *)
(*    with `not session_id`, which treats both alike).                     *)
(*  - relevance scores are kept in tenths (4.0 is 40, 2.5 is 25).          *)
(*  - the content of a document is represented by its length in characters.*)
(***************************************************************************)
EXTENDS Integers, Sequences, FiniteSets, TLC

VARIABLES
    session_documents,     \* main.py: session_id -> list of uploaded documents
    conversation_history,  \* LLMService: session_id -> list of (query, response)
    last,                  \* what the most recent call did and returned
    requests               \* the requests begun, in order: those suspended at an
                           \* await and those completed

vars == <<session_documents, conversation_history, last, requests>>

-----------------------------------------------------------------------------
(* Python string operations *)

Char(s, i) == SubSeq(s, i, i)

\* p in s
Contains(s, p) ==
    \E i \in 1..(Len(s) - Len(p) + 1) : SubSeq(s, i, i + Len(p) - 1) = p

\* any(p in s for p in patterns)
ContainsAny(s, patterns) == \E p \in patterns : Contains(s, p)

Whitespace == {" ", "\t", "\n"}

UpperToLower ==
    [c \in {"A","B","C","D","E","F","G","H","I","J","K","L","M",
            "N","O","P","Q","R","S","T","U","V","W","X","Y","Z"} |->
        CASE c = "A" -> "a" [] c = "B" -> "b" [] c = "C" -> "c" [] c = "D" -> "d"
          [] c = "E" -> "e" [] c = "F" -> "f" [] c = "G" -> "g" [] c = "H" -> "h"
          [] c = "I" -> "i" [] c = "J" -> "j" [] c = "K" -> "k" [] c = "L" -> "l"
          [] c = "M" -> "m" [] c = "N" -> "n" [] c = "O" -> "o" [] c = "P" -> "p"
          [] c = "Q" -> "q" [] c = "R" -> "r" [] c = "S" -> "s" [] c = "T" -> "t"
          [] c = "U" -> "u" [] c = "V" -> "v" [] c = "W" -> "w" [] c = "X" -> "x"
          [] c = "Y" -> "y" [] c = "Z" -> "z"]

RECURSIVE Lower(_)
\* s.lower()
Lower(s) ==
    IF Len(s) = 0 THEN ""
    ELSE LET c == Char(s, 1)
         IN  (IF c \in DOMAIN UpperToLower THEN UpperToLower[c] ELSE c)
             \o Lower(SubSeq(s, 2, Len(s)))

\* s.strip()
Strip(s) ==
    LET nonblank == {i \in 1..Len(s) : Char(s, i) \notin Whitespace}
    IN  IF nonblank = {} THEN ""
        ELSE LET first == CHOOSE i \in nonblank : \A j \in nonblank : i <= j
                 lst   == CHOOSE i \in nonblank : \A j \in nonblank : j <= i
             IN  SubSeq(s, first, lst)

\* len(s.split()): the number of maximal runs of non-whitespace characters
WordCount(s) ==
    Cardinality({i \in 1..Len(s) :
                    /\ Char(s, i) \notin Whitespace
                    /\ (i = 1 \/ Char(s, i - 1) \in Whitespace)})

-----------------------------------------------------------------------------
(* Bounds and input sets *)

MaxUploads == 6      \* documents per session
MaxTurns == 1        \* stored conversation turns, over all sessions

\* the session ids clients send, and the ids uuid.uuid4() can return
SessionIds == {"s1"}
Uuids == {"u1"}

\* a request that carries no session id
NoSessionId == ""

\* session ids that no upload or chat request of the model carries
UnknownSessionIds == {"s2"}

Messages ==
    {"Hello",
     "What is this",
     "summarize the uploaded file",
     "does this comply with our policy",
     "what is our policy on pets",
     "pet rules"}

Hit(name, score) ==
    [content |-> 800, metadata_storage_name |-> name, title |-> "",
     score |-> score, reranker_score |-> 0]

SearchOutcomes ==
    {[hybrid_ok |-> TRUE, hits |-> <<>>, fallback_ok |-> TRUE, fallback_hits |-> <<>>],
     [hybrid_ok |-> TRUE,
      hits |-> <<Hit("pet-policy.pdf", 40), Hit("handbook.pdf", 30), Hit("parking.pdf", 10)>>,
      fallback_ok |-> TRUE, fallback_hits |-> <<>>],
     [hybrid_ok |-> TRUE,
      hits |-> <<Hit("parking.pdf", 26), Hit("pet-policy.pdf", 40),
                 Hit("handbook.pdf", 31), Hit("lease-terms.pdf", 35)>>,
      fallback_ok |-> TRUE, fallback_hits |-> <<>>],
     [hybrid_ok |-> TRUE,
      hits |-> <<Hit("pet-policy.pdf", 40), Hit("lease-terms.pdf", 38),
                 Hit("handbook.pdf", 36), Hit("parking.pdf", 34),
                 Hit("move-out.pdf", 32), Hit("pool-rules.pdf", 31)>>,
      fallback_ok |-> TRUE, fallback_hits |-> <<>>],
     [hybrid_ok |-> FALSE, hits |-> <<>>, fallback_ok |-> TRUE,
      fallback_hits |-> <<Hit("pet-policy.pdf", 40),
                          [content |-> 0, metadata_storage_name |-> "empty.pdf",
                           title |-> "", score |-> 35, reranker_score |-> 0],
                          [content |-> 7000, metadata_storage_name |-> "",
                           title |-> "Handbook", score |-> 30, reranker_score |-> 0]>>],
     [hybrid_ok |-> FALSE, hits |-> <<>>, fallback_ok |-> FALSE, fallback_hits |-> <<>>]}

\* what the generation call returns when it succeeds
Answers == {"Pets need written approval [1]."}

LlmOutcomes ==
    {[ok |-> FALSE, text |-> "Connection error."]}
    \cup {[ok |-> TRUE, text |-> t] : t \in Answers}

allowed_types ==
    {"application/pdf", "image/jpeg", "image/jpg", "image/png", "image/tiff",
     "image/bmp",
     "application/vnd.openxmlformats-officedocument.wordprocessingml.document",
     "text/plain"}

Files ==
    {[filename |-> "lease.pdf", content_type |-> "application/pdf"],
     [filename |-> "setup.exe", content_type |-> "application/x-msdownload"]}

Analyses ==
    {[ok |-> TRUE, content |-> 1200, pages |-> 2, error |-> ""],
     [ok |-> FALSE, content |-> 0, pages |-> 0, error |-> "analysis failed"]}

MaxMarkers == 2      \* pieces of a generated text
MaxCiteDocs == 3     \* documents of a context given to the prompt assembler

\* the pieces the generated texts of the citation specifications are made of
Pieces == {"[1]", "[01]", "[2]", "[3]", "[0]", "[99]", " and "}

RECURSIVE TextsUpTo(_)
TextsUpTo(n) ==
    IF n = 0 THEN {""}
    ELSE LET shorter == TextsUpTo(n - 1)
         IN  shorter \cup {t \o piece : t \in shorter, piece \in Pieces}

CiteTexts == TextsUpTo(MaxMarkers)

UploadedDoc(filename) ==
    [content |-> 1200, filename |-> filename, score |-> 100, source_type |-> "uploaded"]

CompanyDoc(filename) ==
    [content |-> 800, filename |-> filename, score |-> 40, source_type |-> "company"]

RECURSIVE SeqsUpTo(_, _)
\* the sequences over S of length at most n
SeqsUpTo(S, n) ==
    IF n = 0 THEN {<<>>}
    ELSE LET shorter == SeqsUpTo(S, n - 1)
         IN  shorter \cup {Append(q, x) : q \in shorter, x \in S}

\* contexts as the chat handler builds them: the uploaded documents, then
\* the indexed ones
CiteContexts ==
    {c \in {up \o co :
              up \in SeqsUpTo({UploadedDoc("lease.pdf"), UploadedDoc("notice.txt")}, MaxCiteDocs),
              co \in SeqsUpTo({CompanyDoc("pet-policy.pdf"), CompanyDoc("handbook.pdf")}, MaxCiteDocs)} :
        Len(c) <= MaxCiteDocs}

MaxUploadRequests == 3   \* upload requests of the concurrent-upload specification

\* the files of the concurrent uploads
AsyncFiles ==
    Files \cup {[filename |-> "notice.txt", content_type |-> "text/plain"]}

MaxChatRequests == 2     \* chat requests of the concurrent-chat specification

\* the sessions, queries and search results of the concurrent chats
AsyncSessionIds == {"s1", "s2"}

AsyncMessages == {"Hello", "pet rules"}

AsyncSearchOutcomes ==
    {[hybrid_ok |-> TRUE,
      hits |-> <<Hit("pet-policy.pdf", 40), Hit("handbook.pdf", 30), Hit("parking.pdf", 10)>>,
      fallback_ok |-> TRUE, fallback_hits |-> <<>>]}

\* the histories the concurrent chats start from: none, or session s1 with
\* one or two turns of earlier requests
InitialHistories ==
    {[x \in {} |-> <<>>],
     [x \in {"s1"} |-> <<[query |-> "Hello", response |-> "Hi, how can I help?"]>>],
     [x \in {"s1"} |-> <<[query |-> "Hello", response |-> "Hi, how can I help?"],
                        [query |-> "pet rules",
                         response |-> "Pets need written approval [1]."]>>]}

MaxPromptDocs == 2   \* documents of a context given to the prompt specification

\* contexts whose documents have contents below, at and above 10,000
\* characters
PromptContexts ==
    {c \in {up \o co :
              up \in SeqsUpTo({[UploadedDoc("lease.pdf") EXCEPT !.content = n] :
                                  n \in {1200, 10001, 25000}}, MaxPromptDocs),
              co \in SeqsUpTo({[CompanyDoc(f) EXCEPT !.content = n] :
                                  f \in {"pet-policy.pdf", "handbook.pdf"},
                                  n \in {800, 10000, 10001, 25000}}, MaxPromptDocs)} :
        Len(c) <= MaxPromptDocs}

\* the inputs of the specification that extracts from two texts
PairPieces == {"[1]", "[01]", "[3]"}

PairTexts == {t \in CiteTexts : \E a \in PairPieces \cup {""}, b \in PairPieces \cup {""} : t = a \o b}

PairContexts ==
    {<<UploadedDoc("lease.pdf"), CompanyDoc("pet-policy.pdf")>>,
     <<UploadedDoc("lease.pdf"), UploadedDoc("notice.txt"), CompanyDoc("pet-policy.pdf")>>}

\* what the classification call of IntentService does: it raises (ok is
\* FALSE), returns a message without content, or returns `content`
ClassifierContents ==
    {"{\"intent\": \"casual\", \"confidence\": 0.9}",
     "{\"intent\": \"upload_only\", \"confidence\": 0.8}",
     "{\"intent\": \"policy_only\", \"confidence\": 0.7}",
     "  {\"intent\": \"comparison\", \"confidence\": 1}\n",
     "{\"intent\": \"greeting\", \"confidence\": 0.9}",
     "{\"confidence\": 0.9}",
     "{}",
     "[\"casual\"]",
     "\"casual\"",
     "null",
     "casual",
     "",
     "{\"intent\": \"casual\", \"confidence\": 0.9"}

ClassifierOutputs ==
    {[ok |-> FALSE, has_content |-> FALSE, content |-> ""],
     [ok |-> TRUE, has_content |-> FALSE, content |-> ""]}
    \cup {[ok |-> TRUE, has_content |-> TRUE, content |-> c] : c \in ClassifierContents}

-----------------------------------------------------------------------------
(* Rule-based intent detection of the chat handler *)

casual_queries ==
    {"hi", "hello", "hey", "how are you", "good morning", "good afternoon",
     "good evening", "thanks", "thank you", "bye", "goodbye"}

upload_only_patterns ==
    {"upload", "uploaded", "the upload",
     "describe the upload", "explain the upload", "summarize the upload",
     "about the upload", "uploaded document", "uploaded file",
     "what is this", "what's this", "describe this", "explain this",
     "summarize this", "read this", "about this",
     "this document", "this file", "the document", "the file",
     "my document", "my file", "document i uploaded", "file i uploaded",
     "the document i", "the file i",
     "what is the uploaded", "what's the uploaded", "what does this",
     "what's in this", "what is in this", "tell me about this"}

comparison_patterns ==
    {"compare", "compliant", "comply", "compliance", "match", "matches",
     "differ", "difference", "vs", "versus", "according to our",
     "does this follow", "is this correct", "does this meet",
     "against our", "with our policy", "standard agreement",
     "does it comply", "is it compliant", "meets our", "follows our"}

policy_patterns ==
    {"our policy", "our policies", "our handbook", "our procedure",
     "company policy", "how to", "how do i", "what are the steps",
     "what is the process", "standard procedure", "disaster management",
     "marketing", "close a deal", "record video", "laws", "regulations",
     "what are adara", "what is adara", "adara's policies", "adara policies"}

MaxCasualWords == 5

\* query_lower = request.message.lower().strip()
QueryLower(message) == Strip(Lower(message))

is_casual(query_lower) ==
    ContainsAny(query_lower, casual_queries) /\ WordCount(query_lower) <= MaxCasualWords

mentions_upload(query_lower) == ContainsAny(query_lower, upload_only_patterns)

is_comparison(query_lower) == ContainsAny(query_lower, comparison_patterns)

mentions_policy(query_lower) == ContainsAny(query_lower, policy_patterns)

\* What the four any(...) scans find in one message.
ScanMessage(message) ==
    LET q == QueryLower(message)
    IN  [casual     |-> is_casual(q),
         upload     |-> mentions_upload(q),
         comparison |-> is_comparison(q),
         policy     |-> mentions_policy(q)]

\* ScanMessage, computed once per message of the model
MessageScan == [message \in Messages |-> ScanMessage(message)]

\* The four flags the handler computes for one request.
DetectIntent(message, has_uploaded_docs) ==
    LET scan == MessageScan[message]
        is_upload_only == has_uploaded_docs /\ scan.upload
    IN  [casual      |-> scan.casual,
         upload_only |-> is_upload_only,
         comparison  |-> scan.comparison,
         policy_only |-> scan.policy /\ ~scan.comparison /\ ~is_upload_only]

-----------------------------------------------------------------------------
(* Sequences and dicts *)

\* s[:n]
Take(s, n) == SubSeq(s, 1, IF Len(s) < n THEN Len(s) ELSE n)

Min(a, b) == IF a < b THEN a ELSE b

\* d[k] = v on a dict d
DictPut(d, k, v) == [x \in (DOMAIN d) \cup {k} |-> IF x = k THEN v ELSE d[x]]

\* del d[k]
DictDel(d, k) == [x \in (DOMAIN d) \ {k} |-> d[x]]

EmptyDict == [x \in {} |-> <<>>]

-----------------------------------------------------------------------------
(* AzureSearchService.search and its keyword fallback.                      *)
(* A hit of the search client is [content, metadata_storage_name, title,    *)
(* score, reranker_score]: content is its length (0 when absent), a name    *)
(* that is absent is "", a reranker score that is absent is 0.  The hits of *)
(* this model carry no filepath and no chunk_id.                            *)

SearchContentLimit == 5000

HybridFilename(hit) ==
    IF hit.metadata_storage_name # "" THEN hit.metadata_storage_name
    ELSE IF hit.title # "" THEN hit.title
    ELSE "Unknown Document"

HybridScore(hit) == IF hit.reranker_score # 0 THEN hit.reranker_score ELSE hit.score

HybridResult(hit) ==
    [content     |-> Min(hit.content, SearchContentLimit),
     filename    |-> HybridFilename(hit),
     score       |-> HybridScore(hit),
     source_type |-> "company"]

KeywordResult(hit) ==
    [content     |-> Min(hit.content, SearchContentLimit),
     filename    |-> HybridFilename(hit),
     score       |-> hit.score,
     source_type |-> "company"]

HasContent(hit) == hit.content > 0

RECURSIVE MapHits(_, _)
\* the loop over the hits: one result per hit that has content
MapHits(hits, keyword) ==
    IF hits = <<>> THEN <<>>
    ELSE (IF HasContent(Head(hits))
          THEN <<IF keyword THEN KeywordResult(Head(hits)) ELSE HybridResult(Head(hits))>>
          ELSE <<>>)
         \o MapHits(Tail(hits), keyword)

\* _fallback_keyword_search: the results, or [] when the client raises
fallback_keyword_search(outcome) ==
    IF outcome.fallback_ok THEN MapHits(outcome.fallback_hits, TRUE) ELSE <<>>

\* search without the call of _fallback_keyword_search in its except block
SearchNoFallback(outcome) ==
    IF outcome.hybrid_ok
    THEN [results |-> MapHits(outcome.hits, FALSE), client_calls |-> 1,
          client_failures |-> 0, hits |-> outcome.hits]
    ELSE [results |-> <<>>, client_calls |-> 1, client_failures |-> 1, hits |-> <<>>]

\* search: `outcome` is what the search client does on this call:
\* [hybrid_ok, hits, fallback_ok, fallback_hits].  Returns the list the
\* caller gets, with the number of calls made to the search client, the
\* number of them that raised, and the hits the client returned.
search(outcome) ==
    IF outcome.hybrid_ok
    THEN [results |-> MapHits(outcome.hits, FALSE), client_calls |-> 1,
          client_failures |-> 0, hits |-> outcome.hits]
    ELSE [results |-> fallback_keyword_search(outcome), client_calls |-> 2,
          client_failures |-> IF outcome.fallback_ok THEN 1 ELSE 2,
          hits |-> IF outcome.fallback_ok THEN outcome.fallback_hits ELSE <<>>]

-----------------------------------------------------------------------------
(* The chat handler: session lookup, search decision, context selection *)

UploadedScore == 100
ComparisonMinScore == 25
ComparisonTop == 3
DefaultMinScore == 30
DefaultTop == 2
MaxContextDocs == 5

\* has_uploaded_docs = bool(session_id and session_id in session_documents)
HasUploadedDocs(store, session_id) == session_id # "" /\ session_id \in DOMAIN store

\* session_context: the session's documents as context documents
SessionContext(store, session_id) ==
    IF HasUploadedDocs(store, session_id)
    THEN [i \in 1..Len(store[session_id]) |->
            [content     |-> store[session_id][i].content,
             filename    |-> store[session_id][i].filename,
             score       |-> UploadedScore,
             source_type |-> "uploaded"]]
    ELSE <<>>

\* ShouldSearch without the branch that skips the search for an upload-only
\* query
ShouldSearchUnlessCasual(flags, session_context) == ~flags.casual

\* The if/elif chain that decides whether search_service.search is awaited.
ShouldSearch(flags, session_context) ==
    IF flags.casual THEN FALSE
    ELSE IF flags.upload_only /\ session_context # <<>> THEN FALSE
    ELSE IF flags.policy_only THEN TRUE
    ELSE IF flags.comparison THEN TRUE
    ELSE IF session_context = <<>> THEN TRUE
    ELSE TRUE

\* ScoreAbove without the filter
ScoreAny(results, floor) == results

\* [doc for doc in results if doc["score"] > floor]
ScoreAbove(results, floor) == SelectSeq(results, LAMBDA doc : doc.score > floor)

\* SelectContext whose comparison branch leaves the uploaded documents out
SelectContextCompanyOnly(flags, session_context, indexed_results) ==
    IF flags.upload_only /\ session_context # <<>>
    THEN session_context
    ELSE IF flags.policy_only /\ ~flags.comparison
    THEN indexed_results
    ELSE IF flags.comparison /\ session_context # <<>> /\ indexed_results # <<>>
    THEN Take(ScoreAbove(indexed_results, ComparisonMinScore), ComparisonTop)
    ELSE IF session_context # <<>> /\ indexed_results # <<>>
    THEN LET filtered_company == ScoreAbove(indexed_results, DefaultMinScore)
         IN  IF filtered_company # <<>>
             THEN session_context \o Take(filtered_company, DefaultTop)
             ELSE session_context
    ELSE session_context \o indexed_results

\* SelectContext whose comparison branch filters with the floor of the
\* default branch
SelectContextDefaultFloor(flags, session_context, indexed_results) ==
    IF flags.upload_only /\ session_context # <<>>
    THEN session_context
    ELSE IF flags.policy_only /\ ~flags.comparison
    THEN indexed_results
    ELSE IF flags.comparison /\ session_context # <<>> /\ indexed_results # <<>>
    THEN session_context \o Take(ScoreAbove(indexed_results, DefaultMinScore), ComparisonTop)
    ELSE IF session_context # <<>> /\ indexed_results # <<>>
    THEN LET filtered_company == ScoreAbove(indexed_results, DefaultMinScore)
         IN  IF filtered_company # <<>>
             THEN session_context \o Take(filtered_company, DefaultTop)
             ELSE session_context
    ELSE session_context \o indexed_results

\* The "smart context selection" chain: all_context
SelectContext(flags, session_context, indexed_results) ==
    IF flags.upload_only /\ session_context # <<>>
    THEN session_context
    ELSE IF flags.policy_only /\ ~flags.comparison
    THEN indexed_results
    ELSE IF flags.comparison /\ session_context # <<>> /\ indexed_results # <<>>
    THEN session_context \o Take(ScoreAbove(indexed_results, ComparisonMinScore), ComparisonTop)
    ELSE IF session_context # <<>> /\ indexed_results # <<>>
    THEN LET filtered_company == ScoreAbove(indexed_results, DefaultMinScore)
         IN  IF filtered_company # <<>>
             THEN session_context \o Take(filtered_company, DefaultTop)
             ELSE session_context
    ELSE session_context \o indexed_results

\* GenerationContext without the slice
GenerationContextUncut(all_context) == all_context

\* context=all_context[:5] if all_context else []
GenerationContext(all_context) == Take(all_context, MaxContextDocs)

-----------------------------------------------------------------------------
(* LLMService._build_prompt: the citation map (doc_mapping).                *)
(* No document of this repository carries chunk_number or download_url, so  *)
(* an entry is [filename, type] with its "chunks" list always empty.        *)

\* doc.get('parent_id', 'unknown')
ParentId(doc) == IF "parent_id" \in DOMAIN doc THEN doc.parent_id ELSE "unknown"

uploaded_docs(context) == SelectSeq(context, LAMBDA doc : doc.source_type = "uploaded")

company_docs(context) == SelectSeq(context, LAMBDA doc : doc.source_type = "company")

RECURSIVE GroupByParent(_, _)
\* parent_groups: one group per parent id, in order of first appearance; a
\* group keeps the filename of its first chunk and the list of its chunks.
GroupByParent(docs, groups) ==
    IF docs = <<>> THEN groups
    ELSE LET doc == Head(docs)
             at  == {i \in 1..Len(groups) : groups[i].parent_id = ParentId(doc)}
         IN  IF at = {}
             THEN GroupByParent(Tail(docs),
                      Append(groups, [parent_id |-> ParentId(doc),
                                      filename  |-> doc.filename,
                                      chunks    |-> <<doc>>]))
             ELSE LET i == CHOOSE j \in at : TRUE
                  IN  GroupByParent(Tail(docs),
                          [groups EXCEPT ![i].chunks = Append(@, doc)])

parent_groups(context) == GroupByParent(company_docs(context), <<>>)

RECURSIVE RenderUploadedSameNumber(_, _, _)
\* RenderUploaded without the doc_number += 1 at the end of the loop body
RenderUploadedSameNumber(docs, doc_number, doc_mapping) ==
    IF docs = <<>> THEN [doc_number |-> doc_number, doc_mapping |-> doc_mapping]
    ELSE RenderUploadedSameNumber(Tail(docs), doc_number,
             IF doc_number \notin DOMAIN doc_mapping
             THEN DictPut(doc_mapping, doc_number,
                          [filename |-> Head(docs).filename, type |-> "uploaded"])
             ELSE doc_mapping)

RECURSIVE RenderUploaded(_, _, _)
\* the loop over uploaded_docs: each document is entered under the current
\* doc_number (if that number has no entry yet), then doc_number += 1
RenderUploaded(docs, doc_number, doc_mapping) ==
    IF docs = <<>> THEN [doc_number |-> doc_number, doc_mapping |-> doc_mapping]
    ELSE RenderUploaded(Tail(docs), doc_number + 1,
             IF doc_number \notin DOMAIN doc_mapping
             THEN DictPut(doc_mapping, doc_number,
                          [filename |-> Head(docs).filename, type |-> "uploaded"])
             ELSE doc_mapping)

RECURSIVE RenderCompany(_, _, _)
\* the loop over parent_groups.items(): one document number per group
RenderCompany(groups, doc_number, doc_mapping) ==
    IF groups = <<>> THEN [doc_number |-> doc_number, doc_mapping |-> doc_mapping]
    ELSE RenderCompany(Tail(groups), doc_number + 1,
             IF doc_number \notin DOMAIN doc_mapping
             THEN DictPut(doc_mapping, doc_number,
                          [filename |-> Head(groups).filename, type |-> "company"])
             ELSE doc_mapping)

FirstDocNumber == 1

\* _build_prompt: the doc_mapping it returns
build_prompt(context) ==
    LET up == RenderUploaded(uploaded_docs(context), FirstDocNumber, EmptyDict)
    IN  RenderCompany(parent_groups(context), up.doc_number, up.doc_mapping).doc_mapping

-----------------------------------------------------------------------------
(* LLMService._build_prompt: the prompt text.  context_text is modelled by   *)
(* the documents it renders: for each one its number, its filename and, per  *)
(* piece of content, the number of characters shown, whether the truncation  *)
(* line follows, and the length that line states.                            *)

PromptContentLimit == 10000

\* ChunkText without the line "... (content truncated, original length: L chars)"
ChunkTextNoMarker(chunk) ==
    [filename        |-> chunk.filename,
     shown           |-> Min(chunk.content, PromptContentLimit),
     marker          |-> FALSE,
     original_length |-> 0]

\* one chunk of a company document: chunk['content'][:10000], then the
\* truncation line if len(chunk['content']) > 10000
ChunkText(chunk) ==
    [filename        |-> chunk.filename,
     shown           |-> Min(chunk.content, PromptContentLimit),
     marker          |-> chunk.content > PromptContentLimit,
     original_length |-> IF chunk.content > PromptContentLimit THEN chunk.content ELSE 0]

\* one uploaded document: doc['content'] as it is
UploadedText(doc) ==
    [filename        |-> doc.filename,
     shown           |-> doc.content,
     marker          |-> FALSE,
     original_length |-> 0]

context_text(context) ==
    LET up     == uploaded_docs(context)
        groups == parent_groups(context)
    IN  [uploaded |-> [i \in 1..Len(up) |->
                          [doc_number |-> FirstDocNumber + i - 1,
                           filename   |-> up[i].filename,
                           chunks     |-> <<UploadedText(up[i])>>]],
         company  |-> [g \in 1..Len(groups) |->
                          [doc_number |-> FirstDocNumber + Len(up) + g - 1,
                           filename   |-> groups[g].filename,
                           chunks     |-> [c \in 1..Len(groups[g].chunks) |->
                                              ChunkText(groups[g].chunks[c])]]]]

\* the prompt _build_prompt returns: the context text and the question
build_user_prompt(query, context) ==
    [context_text |-> context_text(context), question |-> query]

-----------------------------------------------------------------------------
(* LLMService._extract_citations *)

Digits == {"0", "1", "2", "3", "4", "5", "6", "7", "8", "9"}

DigitValue ==
    [d \in Digits |->
        CASE d = "0" -> 0 [] d = "1" -> 1 [] d = "2" -> 2 [] d = "3" -> 3 [] d = "4" -> 4
          [] d = "5" -> 5 [] d = "6" -> 6 [] d = "7" -> 7 [] d = "8" -> 8 [] d = "9" -> 9]

RECURSIVE ParseInt(_)
\* int(s) for a string of decimal digits
ParseInt(s) ==
    IF Len(s) = 0 THEN 0
    ELSE 10 * ParseInt(SubSeq(s, 1, Len(s) - 1)) + DigitValue[Char(s, Len(s))]

\* set(re.findall(r'\[(\d+)\]', text)): the digit strings between brackets
FindCitations(text) ==
    {SubSeq(text, i + 1, j - 1) :
        <<i, j>> \in {p \in (1..Len(text)) \X (1..Len(text)) :
                        /\ p[1] + 1 < p[2]
                        /\ Char(text, p[1]) = "["
                        /\ Char(text, p[2]) = "]"
                        /\ \A k \in (p[1] + 1)..(p[2] - 1) : Char(text, k) \in Digits}}

RECURSIVE SortedByInt(_)
\* [int(s) for s in sorted(strs, key=int)]: strings with equal value keep
\* the set's iteration order, which their values do not show.
SortedByInt(strs) ==
    IF strs = {} THEN <<>>
    ELSE LET m == CHOOSE s \in strs : \A t \in strs : ParseInt(s) <= ParseInt(t)
         IN  <<ParseInt(m)>> \o SortedByInt(strs \ {m})

IconUploaded == "(outbox)"
IconCompany  == "(folder)"

Icon(type) == IF type = "uploaded" THEN IconUploaded ELSE IconCompany

\* the entry appended for map entry doc_info under the number new_num
SourceEntry(doc_info, new_num) ==
    [filename        |-> Icon(doc_info.type) \o " " \o doc_info.filename,
     type            |-> doc_info.type,
     citation_number |-> new_num]

RECURSIVE EnumerateSourcesKeepInvalid(_, _, _)
\* EnumerateSources without the test `if doc_num in doc_mapping`: a number
\* that is no key of the map gets an entry of an unknown document
EnumerateSourcesKeepInvalid(sorted_nums, new_num, doc_mapping) ==
    IF sorted_nums = <<>> THEN <<>>
    ELSE <<IF Head(sorted_nums) \in DOMAIN doc_mapping
           THEN SourceEntry(doc_mapping[Head(sorted_nums)], new_num)
           ELSE SourceEntry([filename |-> "Unknown Document", type |-> "company"], new_num)>>
         \o EnumerateSourcesKeepInvalid(Tail(sorted_nums), new_num + 1, doc_mapping)

RECURSIVE EnumerateSources(_, _, _)
\* for new_num, doc_num in enumerate(sorted_nums, start=new_num):
\*     if doc_num in doc_mapping: sources.append(...)
EnumerateSources(sorted_nums, new_num, doc_mapping) ==
    IF sorted_nums = <<>> THEN <<>>
    ELSE (IF Head(sorted_nums) \in DOMAIN doc_mapping
          THEN <<SourceEntry(doc_mapping[Head(sorted_nums)], new_num)>>
          ELSE <<>>)
         \o EnumerateSources(Tail(sorted_nums), new_num + 1, doc_mapping)

\* the cited numbers of a text, ascending
CitedNumbers(response_text) == SortedByInt(FindCitations(response_text))

\* CitedNumbers, computed once per generated text of the model
CitedNumbersOf == [t \in Answers \cup CiteTexts |-> CitedNumbers(t)]

extract_citations(response_text, doc_mapping) ==
    EnumerateSources(CitedNumbersOf[response_text], 1, doc_mapping)

-----------------------------------------------------------------------------
(* LLMService.generate_response *)

ApologyAnswer == "I apologize, but I encountered an error processing your request."

RECURSIVE FallbackSourcesPerDocument(_, _, _)
\* FallbackSources without the test `if filename not in seen_files`
FallbackSourcesPerDocument(context, seen_files, doc_num) ==
    IF context = <<>> THEN <<>>
    ELSE LET doc == Head(context)
         IN  <<[filename        |-> Icon(doc.source_type) \o " " \o doc.filename,
                type            |-> doc.source_type,
                citation_number |-> doc_num]>>
             \o FallbackSourcesPerDocument(Tail(context), seen_files, doc_num + 1)

RECURSIVE FallbackSources(_, _, _)
\* the fallback list: one entry per distinct filename of the context
FallbackSources(context, seen_files, doc_num) ==
    IF context = <<>> THEN <<>>
    ELSE LET doc == Head(context)
         IN  IF doc.filename \notin seen_files
             THEN <<[filename        |-> Icon(doc.source_type) \o " " \o doc.filename,
                     type            |-> doc.source_type,
                     citation_number |-> doc_num]>>
                  \o FallbackSources(Tail(context), seen_files \cup {doc.filename}, doc_num + 1)
             ELSE FallbackSources(Tail(context), seen_files, doc_num)

\* the sources of a successful generation
ResponseSources(response_text, context) ==
    LET sources == extract_citations(response_text, build_prompt(context))
    IN  IF sources = <<>> /\ context # <<>>
        THEN FallbackSources(context, {}, 1)
        ELSE sources

\* InitHistory without the test `if session_id not in self.conversation_history`
InitHistoryReset(history, session_id) == DictPut(history, session_id, <<>>)

\* if session_id not in self.conversation_history:
\*     self.conversation_history[session_id] = []
InitHistory(history, session_id) ==
    IF session_id \in DOMAIN history THEN history
    ELSE DictPut(history, session_id, <<>>)

\* StoreTurn that keeps the latest turn only
StoreTurnKeepLatest(history, session_id, query, response) ==
    [history EXCEPT ![session_id] = <<[query |-> query, response |-> response]>>]

\* self.conversation_history[session_id].append({"query": ..., "response": ...})
StoreTurn(history, session_id, query, response) ==
    [history EXCEPT ![session_id] = Append(@, [query |-> query, response |-> response])]

\* _build_system_prompt: the base prompt with one of its two endings
SystemPrompt(has_uploads) ==
    IF has_uploads THEN "base prompt, source attribution for uploaded and company documents"
    ELSE "base prompt, source attribution"

RECURSIVE TurnMessages(_)
\* for msg in self.conversation_history[session_id]: a user message and an
\* assistant message per turn
TurnMessages(turns) ==
    IF turns = <<>> THEN <<>>
    ELSE <<[role |-> "user", content |-> Head(turns).query],
           [role |-> "assistant", content |-> Head(turns).response]>>
         \o TurnMessages(Tail(turns))

\* GenerationMessages that sends the most recent turn only
GenerationMessagesLastTurn(turns, system_prompt, user_prompt) ==
    <<[role |-> "system", content |-> system_prompt]>>
    \o TurnMessages(IF turns = <<>> THEN <<>> ELSE <<turns[Len(turns)]>>)
    \o <<[role |-> "user", content |-> user_prompt]>>

\* _generate_azure_openai: the messages of the generation call
GenerationMessages(turns, system_prompt, user_prompt) ==
    <<[role |-> "system", content |-> system_prompt]>>
    \o TurnMessages(turns)
    \o <<[role |-> "user", content |-> user_prompt]>>

\* _generate_azure_openai: the (query, response) turns placed between the
\* system prompt and the current user prompt
HistoryMessages(history, session_id) == history[session_id]

\* generate_response whose except block answers with the text of the
\* exception
generate_response_error_text(history, query, context, session_id, llm) ==
    LET h0 == IF session_id \in DOMAIN history THEN history
              ELSE DictPut(history, session_id, <<>>)
    IN  IF llm.ok
        THEN [history  |-> [h0 EXCEPT ![session_id] =
                               Append(@, [query |-> query, response |-> llm.text])],
              messages |-> HistoryMessages(h0, session_id),
              ok       |-> TRUE,
              answer   |-> llm.text,
              sources  |-> ResponseSources(llm.text, context),
              session_id |-> session_id]
        ELSE [history  |-> h0,
              messages |-> HistoryMessages(h0, session_id),
              ok       |-> FALSE,
              answer   |-> llm.text,
              sources  |-> <<>>,
              session_id |-> session_id]

\* generate_response on history `history` for the (non-empty) session id;
\* llm is what the generation call does: [ok, text].
\* Returns the new history and the returned dict.
generate_response(history, query, context, session_id, llm) ==
    LET h0 == InitHistory(history, session_id)
    IN  IF llm.ok
        THEN [history  |-> StoreTurn(h0, session_id, query, llm.text),
              messages |-> HistoryMessages(h0, session_id),
              ok       |-> TRUE,
              answer   |-> llm.text,
              sources  |-> ResponseSources(llm.text, context),
              session_id |-> session_id]
        ELSE [history  |-> h0,
              messages |-> HistoryMessages(h0, session_id),
              ok       |-> FALSE,
              answer   |-> ApologyAnswer,
              sources  |-> <<>>,
              session_id |-> session_id]

-----------------------------------------------------------------------------
(* DocumentIntelligenceService.extract_text: `analysis` is what the         *)
(* analysis call does, [ok, content, pages, error]; content is the length   *)
(* of the stripped text.                                                    *)

extract_text(analysis, filename) ==
    IF analysis.ok
    THEN [text |-> analysis.content, page_count |-> analysis.pages,
          filename |-> filename, success |-> TRUE, error |-> ""]
    ELSE [text |-> 0, page_count |-> 0,
          filename |-> filename, success |-> FALSE, error |-> analysis.error]

-----------------------------------------------------------------------------
(* IntentService.classify_intent.                                           *)
(* json.loads is modelled for flat documents: a scalar, or an object or     *)
(* array whose members are scalars, with strings that hold no quote,        *)
(* backslash, comma or colon.  A parsed value is [kind, text, fields,       *)
(* items]; kind "error" stands for the exception json.loads raises.         *)

Quote == "\""

NoFields == [k \in {} |-> ""]

JsonValue(kind, text) == [kind |-> kind, text |-> text, fields |-> NoFields, items |-> <<>>]

JsonError == JsonValue("error", "")

IsJsonString(t) ==
    /\ Len(t) >= 2
    /\ Char(t, 1) = Quote /\ Char(t, Len(t)) = Quote
    /\ \A i \in 2..(Len(t) - 1) : Char(t, i) \notin {Quote, "\\"}

IsJsonNumber(t) ==
    LET body == IF Len(t) > 0 /\ Char(t, 1) = "-" THEN SubSeq(t, 2, Len(t)) ELSE t
        dots == {i \in 1..Len(body) : Char(body, i) = "."}
    IN  /\ Len(body) > 0
        /\ \A i \in 1..Len(body) : Char(body, i) \in Digits \cup {"."}
        /\ Cardinality(dots) <= 1
        /\ Char(body, 1) # "." /\ Char(body, Len(body)) # "."
        /\ (Len(body) > 1 /\ Char(body, 1) = "0") => Char(body, 2) = "."

\* a JSON scalar, surrounding whitespace removed
JsonScalar(text) ==
    LET t == Strip(text)
    IN  IF t = "null" THEN JsonValue("null", t)
        ELSE IF t \in {"true", "false"} THEN JsonValue("bool", t)
        ELSE IF IsJsonString(t) THEN JsonValue("string", SubSeq(t, 2, Len(t) - 1))
        ELSE IF IsJsonNumber(t) THEN JsonValue("number", t)
        ELSE JsonError

RECURSIVE SplitOn(_, _)
\* the pieces of s between the occurrences of the character sep
SplitOn(s, sep) ==
    LET at == {i \in 1..Len(s) : Char(s, i) = sep}
    IN  IF at = {} THEN <<s>>
        ELSE LET i == CHOOSE j \in at : \A k \in at : j <= k
             IN  <<SubSeq(s, 1, i - 1)>> \o SplitOn(SubSeq(s, i + 1, Len(s)), sep)

\* one `"key": value` member of an object: [ok, key, value]
JsonMember(text) ==
    LET parts == SplitOn(text, ":")
        key   == JsonScalar(parts[1])
        value == IF Len(parts) = 2 THEN JsonScalar(parts[2]) ELSE JsonError
    IN  [ok    |-> Len(parts) = 2 /\ key.kind = "string" /\ value.kind # "error",
         key   |-> key.text,
         value |-> value]

RECURSIVE MembersToFields(_, _)
\* the dict of a list of members; a repeated key keeps its last value
MembersToFields(members, fields) ==
    IF members = <<>> THEN fields
    ELSE MembersToFields(Tail(members),
                         DictPut(fields, Head(members).key, Head(members).value))

\* json.loads(text)
JsonLoads(text) ==
    LET t     == Strip(text)
        inner == Strip(SubSeq(t, 2, Len(t) - 1))
        parts == SplitOn(inner, ",")
    IN  IF Len(t) >= 2 /\ Char(t, 1) = "{" /\ Char(t, Len(t)) = "}"
        THEN IF inner = "" THEN JsonValue("object", "")
             ELSE LET members == [i \in 1..Len(parts) |-> JsonMember(parts[i])]
                  IN  IF \A i \in 1..Len(members) : members[i].ok
                      THEN [kind |-> "object", text |-> "",
                            fields |-> MembersToFields(members, NoFields), items |-> <<>>]
                      ELSE JsonError
        ELSE IF Len(t) >= 2 /\ Char(t, 1) = "[" /\ Char(t, Len(t)) = "]"
        THEN IF inner = "" THEN JsonValue("array", "")
             ELSE LET items == [i \in 1..Len(parts) |-> JsonScalar(parts[i])]
                  IN  IF \A i \in 1..Len(items) : items[i].kind # "error"
                      THEN [kind |-> "array", text |-> "",
                            fields |-> NoFields, items |-> items]
                      ELSE JsonError
        ELSE JsonScalar(t)

\* JsonLoads, computed once per content of the model
ParsedContent == [c \in ClassifierContents |-> JsonLoads(c)]

\* the dict of the except block: {"intent": "policy_only", "confidence": 0.5}
FallbackIntent ==
    [kind |-> "object", text |-> "",
     fields |-> [intent |-> JsonValue("string", "policy_only"),
                 confidence |-> JsonValue("number", "0.5")],
     items |-> <<>>]

\* classify_intent without its try/except: what the call or json.loads
\* raised comes back in place of the default
classify_intent_unguarded(output) ==
    IF ~output.ok \/ ~output.has_content THEN JsonError
    ELSE ParsedContent[output.content]

\* classify_intent: `output` is what the classification call does.  The
\* call raising, a message without content (None.strip()) and a content
\* json.loads rejects all end in the except block; any parsed value is
\* returned as it is.
classify_intent(output) ==
    IF ~output.ok \/ ~output.has_content THEN FallbackIntent
    ELSE LET intent_data == ParsedContent[output.content]
         IN  IF intent_data.kind = "error" THEN FallbackIntent ELSE intent_data

-----------------------------------------------------------------------------
(* Session ids and turn counting *)

\* uuid.uuid4(): an id no dict of the process holds yet
FreshIds == Uuids \ ((DOMAIN session_documents) \cup (DOMAIN conversation_history))

\* the id a handler works with: the request's, or a new uuid when it has none
EffectiveIds(session_id) == IF session_id = "" THEN FreshIds ELSE {session_id}

RECURSIVE SumLen(_, _)
SumLen(d, keys) ==
    IF keys = {} THEN 0
    ELSE LET k == CHOOSE x \in keys : TRUE
         IN  Len(d[k]) + SumLen(d, keys \ {k})

TotalTurns == SumLen(conversation_history, DOMAIN conversation_history)

-----------------------------------------------------------------------------
(* The request handlers of main.py *)

\* POST /api/chat
Chat(session_id, message, search_outcome, llm) ==
    LET has_uploaded_docs == HasUploadedDocs(session_documents, session_id)
        flags             == DetectIntent(message, has_uploaded_docs)
        session_context   == SessionContext(session_documents, session_id)
        searched          == ShouldSearch(flags, session_context)
        found             == IF searched THEN search(search_outcome)
                             ELSE [results |-> <<>>, client_calls |-> 0,
                                   client_failures |-> 0, hits |-> <<>>]
        indexed_results   == found.results
        all_context       == SelectContext(flags, session_context, indexed_results)
        context           == GenerationContext(all_context)
    IN  /\ \E sid \in EffectiveIds(session_id) :
              LET r == generate_response(conversation_history, message, context, sid, llm)
              IN  /\ conversation_history' = r.history
                  /\ last' = [op                |-> "chat",
                              session_id        |-> session_id,
                              message           |-> message,
                              has_uploaded_docs |-> has_uploaded_docs,
                              flags             |-> flags,
                              session_context   |-> session_context,
                              searched          |-> searched,
                              client_calls      |-> found.client_calls,
                              client_failures   |-> found.client_failures,
                              hits              |-> found.hits,
                              prompt            |-> build_user_prompt(message, context),
                              indexed_results   |-> indexed_results,
                              all_context       |-> all_context,
                              context           |-> context,
                              messages          |-> r.messages,
                              status            |-> 200,
                              generated         |-> r.ok,
                              answer            |-> r.answer,
                              sources           |-> r.sources,
                              response_session_id |-> r.session_id]
        /\ UNCHANGED session_documents

\* upload_document that creates the session's list before it validates and
\* extracts
UploadStoreBeforeExtraction(session_id, file, analysis) ==
    \E sid \in EffectiveIds(session_id) :
        LET extraction_result == extract_text(analysis, file.filename)
            docs == IF sid \in DOMAIN session_documents
                    THEN session_documents[sid] ELSE <<>>
        IN  IF file.content_type \notin allowed_types
            THEN /\ session_documents' = DictPut(session_documents, sid, docs)
                 /\ last' = [op |-> "upload", session_id |-> sid, status |-> 400,
                             filename |-> file.filename, content_type |-> file.content_type,
                             extraction |-> "not_run",
                             detail |-> "File type " \o file.content_type \o " not supported"]
                 /\ UNCHANGED conversation_history
            ELSE IF ~extraction_result.success
            THEN /\ session_documents' = DictPut(session_documents, sid, docs)
                 /\ last' = [op |-> "upload", session_id |-> sid, status |-> 500,
                             filename |-> file.filename, content_type |-> file.content_type,
                             extraction |-> "failed",
                             detail |-> "Failed to extract text: " \o extraction_result.error]
                 /\ UNCHANGED conversation_history
            ELSE /\ session_documents' =
                        DictPut(session_documents, sid,
                                Append(docs, [filename   |-> file.filename,
                                              content    |-> extraction_result.text,
                                              page_count |-> extraction_result.page_count]))
                 /\ last' = [op |-> "upload", session_id |-> sid, status |-> 200,
                             filename |-> file.filename, content_type |-> file.content_type,
                             extraction |-> "succeeded", detail |-> ""]
                 /\ UNCHANGED conversation_history

\* POST /api/upload
Upload(session_id, file, analysis) ==
    \E sid \in EffectiveIds(session_id) :
        LET extraction_result == extract_text(analysis, file.filename)
            docs == IF sid \in DOMAIN session_documents
                    THEN session_documents[sid] ELSE <<>>
        IN  IF file.content_type \notin allowed_types
            THEN /\ last' = [op |-> "upload", session_id |-> sid, status |-> 400,
                             filename |-> file.filename, content_type |-> file.content_type,
                             extraction |-> "not_run",
                             detail |-> "File type " \o file.content_type \o " not supported"]
                 /\ UNCHANGED <<session_documents, conversation_history>>
            ELSE IF ~extraction_result.success
            THEN /\ last' = [op |-> "upload", session_id |-> sid, status |-> 500,
                             filename |-> file.filename, content_type |-> file.content_type,
                             extraction |-> "failed",
                             detail |-> "Failed to extract text: " \o extraction_result.error]
                 /\ UNCHANGED <<session_documents, conversation_history>>
            ELSE /\ session_documents' =
                        DictPut(session_documents, sid,
                                Append(docs, [filename   |-> file.filename,
                                              content    |-> extraction_result.text,
                                              page_count |-> extraction_result.page_count]))
                 /\ last' = [op |-> "upload", session_id |-> sid, status |-> 200,
                             filename |-> file.filename, content_type |-> file.content_type,
                             extraction |-> "succeeded", detail |-> ""]
                 /\ UNCHANGED conversation_history

\* cleanup_session that answers 404 for a session id the store does not hold
CleanupMissingIsError(session_id) ==
    IF session_id = ""
    THEN /\ last' = [op |-> "cleanup", session_id |-> session_id, status |-> 400,
                     files_deleted |-> 0]
         /\ UNCHANGED <<session_documents, conversation_history>>
    ELSE IF session_id \in DOMAIN session_documents
    THEN /\ session_documents' = DictDel(session_documents, session_id)
         /\ last' = [op |-> "cleanup", session_id |-> session_id, status |-> 200,
                     files_deleted |-> Len(session_documents[session_id])]
         /\ UNCHANGED conversation_history
    ELSE /\ last' = [op |-> "cleanup", session_id |-> session_id, status |-> 404,
                     files_deleted |-> 0]
         /\ UNCHANGED <<session_documents, conversation_history>>

\* POST /api/cleanup-session
Cleanup(session_id) ==
    IF session_id = ""
    THEN /\ last' = [op |-> "cleanup", session_id |-> session_id, status |-> 400,
                     files_deleted |-> 0]
         /\ UNCHANGED <<session_documents, conversation_history>>
    ELSE IF session_id \in DOMAIN session_documents
    THEN /\ session_documents' = DictDel(session_documents, session_id)
         /\ last' = [op |-> "cleanup", session_id |-> session_id, status |-> 200,
                     files_deleted |-> Len(session_documents[session_id])]
         /\ UNCHANGED conversation_history
    ELSE /\ last' = [op |-> "cleanup", session_id |-> session_id, status |-> 200,
                     files_deleted |-> 0]
         /\ UNCHANGED <<session_documents, conversation_history>>

-----------------------------------------------------------------------------
(* upload_document as the event loop runs it: the coroutine runs to the     *)
(* extraction call, the call returns at some later time, and the coroutine  *)
(* runs to its end.  Other requests run in between.                         *)

\* StoreDocument without the test `if session_id not in session_documents`:
\* the list is created anew each time
StoreDocumentInNewList(store, session_id, doc) == DictPut(store, session_id, <<doc>>)

\* the statements that store a document: the list is created if the session
\* has none, and the document is appended
StoreDocument(store, session_id, doc) ==
    DictPut(store, session_id,
            Append(IF session_id \in DOMAIN store THEN store[session_id] ELSE <<>>, doc))

NoExtraction ==
    [text |-> 0, page_count |-> 0, filename |-> "", success |-> FALSE, error |-> ""]

\* upload_document up to `await doc_intelligence_service.extract_text(...)`
UploadBegin(session_id, file) ==
    /\ \E sid \in EffectiveIds(session_id) :
          requests' = Append(requests,
              IF file.content_type \notin allowed_types
              THEN [kind |-> "upload", session_id |-> sid, file |-> file,
                    stage |-> "done", extraction_result |-> NoExtraction,
                    status |-> 400,
                    detail |-> "File type " \o file.content_type \o " not supported"]
              ELSE [kind |-> "upload", session_id |-> sid, file |-> file,
                    stage |-> "waiting", extraction_result |-> NoExtraction,
                    status |-> 0, detail |-> ""])
    /\ UNCHANGED <<session_documents, conversation_history, last>>

\* the extraction call of request rid returns: extract_text has its result
ExtractionReturns(rid, analysis) ==
    /\ rid \in DOMAIN requests
    /\ requests[rid].stage = "waiting"
    /\ requests' = [requests EXCEPT
                        ![rid].stage = "answered",
                        ![rid].extraction_result =
                            extract_text(analysis, requests[rid].file.filename)]
    /\ UNCHANGED <<session_documents, conversation_history, last>>

\* upload_document from the result of the extraction to its end
UploadResume(rid) ==
    /\ rid \in DOMAIN requests
    /\ requests[rid].stage = "answered"
    /\ LET r == requests[rid]
       IN  IF ~r.extraction_result.success
           THEN /\ requests' = [requests EXCEPT
                                   ![rid].stage = "done",
                                   ![rid].status = 500,
                                   ![rid].detail = "Failed to extract text: "
                                                   \o r.extraction_result.error]
                /\ UNCHANGED session_documents
           ELSE /\ session_documents' =
                       StoreDocument(session_documents, r.session_id,
                                     [filename   |-> r.file.filename,
                                      content    |-> r.extraction_result.text,
                                      page_count |-> r.extraction_result.page_count])
                /\ requests' = [requests EXCEPT ![rid].stage = "done",
                                                ![rid].status = 200]
    /\ UNCHANGED <<conversation_history, last>>

-----------------------------------------------------------------------------
(* chat in two steps, split at the generation call: the coroutine runs to   *)
(* the call, the call returns or raises, and the coroutine runs to its end. *)
(* Requests that begin between the two steps are the ones suspended at      *)
(* `await search_service.search` or `await llm_service.generate_response`.  *)
(* The client of llm_service.py:13 is the synchronous AzureOpenAI, whose    *)
(* call keeps the event loop: those behaviours, where the two steps of a    *)
(* request are adjacent, are among the ones of this specification.          *)

\* chat and generate_response up to the generation call
ChatBegin(session_id, message, search_outcome) ==
    LET has_uploaded_docs == HasUploadedDocs(session_documents, session_id)
        flags             == DetectIntent(message, has_uploaded_docs)
        session_context   == SessionContext(session_documents, session_id)
        searched          == ShouldSearch(flags, session_context)
        indexed_results   == IF searched THEN search(search_outcome).results ELSE <<>>
        all_context       == SelectContext(flags, session_context, indexed_results)
        context           == GenerationContext(all_context)
        has_uploads       == session_context # <<>>
    IN  /\ \E sid \in EffectiveIds(session_id) :
              LET h0 == InitHistory(conversation_history, sid)
              IN  /\ conversation_history' = h0
                  /\ requests' = Append(requests,
                        [kind       |-> "chat",
                         session_id |-> sid,
                         query      |-> message,
                         context    |-> context,
                         has_uploads |-> has_uploads,
                         user_prompt |-> build_user_prompt(message, context),
                         messages   |-> GenerationMessages(h0[sid], SystemPrompt(has_uploads),
                                            build_user_prompt(message, context)),
                         stage      |-> "waiting",
                         generated  |-> FALSE,
                         answer     |-> "",
                         sources    |-> <<>>])
        /\ UNCHANGED <<session_documents, last>>

\* the generation call of request rid returns or raises, and
\* generate_response and chat run to their end
ChatResume(rid, llm) ==
    /\ rid \in DOMAIN requests
    /\ requests[rid].stage = "waiting"
    /\ LET r == requests[rid]
           g == generate_response(conversation_history, r.query, r.context,
                                  r.session_id, llm)
       IN  /\ conversation_history' = g.history
           /\ requests' = [requests EXCEPT ![rid].stage = "done",
                                           ![rid].generated = g.ok,
                                           ![rid].answer = g.answer,
                                           ![rid].sources = g.sources]
    /\ UNCHANGED <<session_documents, last>>

-----------------------------------------------------------------------------
(* The request-level specification: the process starts with both dicts      *)
(* empty and serves chat, upload and cleanup requests.                      *)

Init ==
    /\ session_documents = EmptyDict
    /\ conversation_history = EmptyDict
    /\ requests = <<>>
    /\ last = [op |-> "start"]

DoChat ==
    \E session_id \in SessionIds, message \in Messages,
       search_outcome \in SearchOutcomes, llm \in LlmOutcomes :
        /\ llm.ok => TotalTurns < MaxTurns
        /\ Chat(session_id, message, search_outcome, llm)
        /\ UNCHANGED requests

DoUpload ==
    \E session_id \in SessionIds, file \in Files, analysis \in Analyses :
        /\ session_id \in DOMAIN session_documents =>
               Len(session_documents[session_id]) < MaxUploads
        /\ Upload(session_id, file, analysis)
        /\ UNCHANGED requests

DoCleanup ==
    \E session_id \in SessionIds \cup UnknownSessionIds \cup {NoSessionId} :
        /\ Cleanup(session_id)
        /\ UNCHANGED requests

Next == DoChat \/ DoUpload \/ DoCleanup

Spec == Init /\ [][Next]_vars

-----------------------------------------------------------------------------
(* The concurrent-upload specification: upload requests of one session,     *)
(* interleaved at their extraction calls.  The event loop resumes a         *)
(* coroutine whose call has returned; nothing makes a call return.          *)

UploadsInit ==
    /\ session_documents = EmptyDict
    /\ conversation_history = EmptyDict
    /\ requests = <<>>
    /\ last = [op |-> "start"]

BeginUpload ==
    \E session_id \in SessionIds, file \in AsyncFiles :
        /\ Len(requests) < MaxUploadRequests
        /\ UploadBegin(session_id, file)

ReturnExtraction ==
    \E rid \in DOMAIN requests, analysis \in Analyses : ExtractionReturns(rid, analysis)

ResumeUpload == \E rid \in DOMAIN requests : UploadResume(rid)

UploadsNext == BeginUpload \/ ReturnExtraction \/ ResumeUpload

SpecUploads ==
    /\ UploadsInit
    /\ [][UploadsNext]_vars
    /\ \A rid \in 1..MaxUploadRequests : WF_vars(UploadResume(rid))

-----------------------------------------------------------------------------
(* The concurrent-chat specification: chat requests of two sessions,        *)
(* interleaved at their generation calls, on a history that earlier         *)
(* requests may have filled.  `last` keeps the history of the start.        *)

ChatsInit ==
    /\ session_documents = EmptyDict
    /\ requests = <<>>
    /\ \E history \in InitialHistories :
          /\ conversation_history = history
          /\ last = [op |-> "start", conversation_history |-> history]

BeginChat ==
    \E session_id \in AsyncSessionIds, message \in AsyncMessages,
       search_outcome \in AsyncSearchOutcomes :
        /\ Len(requests) < MaxChatRequests
        /\ ChatBegin(session_id, message, search_outcome)

ResumeChat == \E rid \in DOMAIN requests, llm \in LlmOutcomes : ChatResume(rid, llm)

ChatsNext == BeginChat \/ ResumeChat

SpecChats == ChatsInit /\ [][ChatsNext]_vars

-----------------------------------------------------------------------------
(* The citation specification: the steps of generate_response after a      *)
(* successful generation (_build_prompt, _extract_citations, the fallback   *)
(* list) applied to a context and a generated text drawn from the input     *)
(* sets.                                                                    *)

CiteInit ==
    /\ session_documents = EmptyDict
    /\ conversation_history = EmptyDict
    /\ requests = <<>>
    /\ \E context \in CiteContexts, response_text \in CiteTexts :
          last = [op |-> "cite_input", context |-> context,
                  response_text |-> response_text]

BuildPromptStep ==
    /\ last.op = "cite_input"
    /\ last' = [op |-> "cite_built", context |-> last.context,
                response_text |-> last.response_text,
                doc_mapping |-> build_prompt(last.context)]
    /\ UNCHANGED <<session_documents, conversation_history, requests>>

ExtractCitationsStep ==
    /\ last.op = "cite_built"
    /\ last' = [op |-> "cite_done", context |-> last.context,
                response_text |-> last.response_text,
                doc_mapping |-> last.doc_mapping,
                sources |-> extract_citations(last.response_text, last.doc_mapping)]
    /\ UNCHANGED <<session_documents, conversation_history, requests>>

\* the end of generate_response's success path: `if not sources and context`
\* replaces an empty list by the fallback list, and the list is returned
FallbackStep ==
    /\ last.op = "cite_done"
    /\ last' = [op |-> "cite_returned", context |-> last.context,
                response_text |-> last.response_text,
                doc_mapping |-> last.doc_mapping,
                cited |-> last.sources,
                sources |-> IF last.sources = <<>> /\ last.context # <<>>
                            THEN FallbackSources(last.context, {}, 1)
                            ELSE last.sources]
    /\ UNCHANGED <<session_documents, conversation_history, requests>>

CiteNext == BuildPromptStep \/ ExtractCitationsStep \/ FallbackStep

SpecCite == CiteInit /\ [][CiteNext]_vars

-----------------------------------------------------------------------------
(* The pair specification: _extract_citations applied to two generated      *)
(* texts under the same citation map.                                       *)

PairInit ==
    /\ session_documents = EmptyDict
    /\ conversation_history = EmptyDict
    /\ requests = <<>>
    /\ \E context \in PairContexts, text_a \in PairTexts, text_b \in PairTexts :
          last = [op |-> "pair_input", context |-> context,
                  text_a |-> text_a, text_b |-> text_b]

ExtractPairStep ==
    /\ last.op = "pair_input"
    /\ LET doc_mapping == build_prompt(last.context)
       IN  last' = [op |-> "pair_done", context |-> last.context,
                    doc_mapping |-> doc_mapping,
                    text_a |-> last.text_a, text_b |-> last.text_b,
                    sources_a |-> extract_citations(last.text_a, doc_mapping),
                    sources_b |-> extract_citations(last.text_b, doc_mapping)]
    /\ UNCHANGED <<session_documents, conversation_history, requests>>

PairNext == ExtractPairStep

SpecPair == PairInit /\ [][PairNext]_vars

-----------------------------------------------------------------------------
(* The prompt specification: _build_prompt applied to a query and a context *)
(* drawn from the input sets.                                               *)

PromptInit ==
    /\ session_documents = EmptyDict
    /\ conversation_history = EmptyDict
    /\ requests = <<>>
    /\ \E query \in Messages, context \in PromptContexts :
          last = [op |-> "prompt_input", query |-> query, context |-> context]

AssemblePromptStep ==
    /\ last.op = "prompt_input"
    /\ last' = [op |-> "prompt_built", query |-> last.query, context |-> last.context,
                prompt |-> build_user_prompt(last.query, last.context),
                doc_mapping |-> build_prompt(last.context)]
    /\ UNCHANGED <<session_documents, conversation_history, requests>>

PromptNext == AssemblePromptStep

SpecPrompt == PromptInit /\ [][PromptNext]_vars

-----------------------------------------------------------------------------
(* The classifier specification: classify_intent applied to a query and an  *)
(* output of the classification call drawn from the input sets.             *)

IntentInit ==
    /\ session_documents = EmptyDict
    /\ conversation_history = EmptyDict
    /\ requests = <<>>
    /\ \E query \in Messages, has_uploaded_docs \in BOOLEAN, output \in ClassifierOutputs :
          last = [op |-> "intent_input", query |-> query,
                  has_uploaded_docs |-> has_uploaded_docs, output |-> output]

ClassifyIntentStep ==
    /\ last.op = "intent_input"
    /\ last' = [op |-> "intent_done", query |-> last.query,
                has_uploaded_docs |-> last.has_uploaded_docs, output |-> last.output,
                result |-> classify_intent(last.output)]
    /\ UNCHANGED <<session_documents, conversation_history, requests>>

IntentNext == ClassifyIntentStep

SpecIntent == IntentInit /\ [][IntentNext]_vars

-----------------------------------------------------------------------------
(* Properties of the request-level specification *)

ChatDone == last.op = "chat"

\* the documents the store holds for the session of the last request
StoredContext == SessionContext(session_documents, last.session_id)

AllUploaded(context) == \A i \in 1..Len(context) : context[i].source_type = "uploaded"

\* C1: a chat request whose query is classified casual issues no search call
\* and passes an empty context to generation, whatever the session holds.
C1_CasualEmptyContext ==
    (ChatDone /\ last.flags.casual) =>
        (~last.searched /\ last.client_calls = 0 /\ last.context = <<>>)

\* C2 as claimed: when the intent is neither casual nor pure policy_only,
\* every document stored for the session is in the context passed to
\* generation, for any number of uploaded documents.
C2_AllUploadsInContext ==
    (ChatDone /\ ~last.flags.casual /\ ~last.flags.policy_only) =>
        uploaded_docs(last.context) = StoredContext

\* C2 as amended: when the intent is neither casual nor pure policy_only, the
\* context passed to generation starts with the session's documents in upload
\* order, up to the first five of them; documents after the fifth are cut.
C2_FirstUploadsInContext ==
    (ChatDone /\ ~last.flags.casual /\ ~last.flags.policy_only) =>
        /\ uploaded_docs(last.context) = Take(StoredContext, MaxContextDocs)
        /\ Take(last.context, Len(uploaded_docs(last.context))) = uploaded_docs(last.context)

\* a session of six documents, asked a comparison question that found indexed
\* results: five of the six documents are the whole context
C2_Witness ==
    /\ ChatDone /\ ~last.flags.casual /\ ~last.flags.policy_only
    /\ last.flags.comparison
    /\ last.indexed_results # <<>>
    /\ Len(StoredContext) = MaxContextDocs + 1
    /\ Len(last.context) = MaxContextDocs

FlagCount(flags) ==
    (IF flags.casual THEN 1 ELSE 0) + (IF flags.upload_only THEN 1 ELSE 0)
    + (IF flags.comparison THEN 1 ELSE 0) + (IF flags.policy_only THEN 1 ELSE 0)

\* C3: at most one of the flags casual, upload_only, comparison, policy_only
\* is true for a request, and a request with none of them searches the
\* indexed corpus.
C3_ExactlyOneIntent ==
    ChatDone => (FlagCount(last.flags) <= 1 /\ (FlagCount(last.flags) = 0 => last.searched))

\* C4: when the session has uploaded documents and the query contains an
\* upload-reference phrase, no search call is issued and the context holds
\* uploaded documents only.
C4_UploadReferenceUploadsOnly ==
    (ChatDone /\ last.has_uploaded_docs /\ MessageScan[last.message].upload) =>
        /\ ~last.searched
        /\ last.client_calls = 0
        /\ last.indexed_results = <<>>
        /\ AllUploaded(last.context)

\* an upload-reference question that is not also casual, answered from the
\* session's documents
C4_Witness ==
    /\ ChatDone /\ last.has_uploaded_docs /\ MessageScan[last.message].upload
    /\ ~last.flags.casual
    /\ last.context # <<>>
    /\ last.context = StoredContext

\* C5: once cleanup of a session id has completed (and removed the session's
\* documents), the next chat request with that id uses no uploaded document
\* and sends no prior turn to generation.
C5_CleanupDestroysSession ==
    [][(/\ last.op = "cleanup" /\ last.status = 200 /\ last.files_deleted > 0
        /\ last'.op = "chat" /\ last'.session_id = last.session_id)
       => (uploaded_docs(last'.context) = <<>> /\ last'.messages = <<>>)]_vars

\* C22: cleanup of a session id the store does not hold answers with zero
\* files deleted and no error, leaves the store as it was, and the documents
\* then found for that id are the empty list.
C22_CleanupUnknownSession ==
    [][(/\ last'.op = "cleanup" /\ last'.session_id # NoSessionId
        /\ last'.session_id \notin DOMAIN session_documents)
       => (/\ last'.status = 200
           /\ last'.files_deleted = 0
           /\ session_documents' = session_documents
           /\ SessionContext(session_documents', last'.session_id) = <<>>)]_vars

\* cleanup of an unknown id while another session holds documents
C22_Witness ==
    /\ last.op = "cleanup" /\ last.status = 200 /\ last.files_deleted = 0
    /\ last.session_id \in UnknownSessionIds
    /\ last.session_id \notin DOMAIN session_documents
    /\ \E sid \in DOMAIN session_documents : Len(session_documents[sid]) > 0

\* C27: an upload whose file type is unsupported or whose text extraction
\* reports success=false fails with an error that carries the reason and
\* leaves the session store as it was.
C27_FailedUploadStoresNothing ==
    [][(/\ last'.op = "upload"
        /\ (last'.content_type \notin allowed_types \/ last'.extraction = "failed"))
       => (/\ last'.status = (IF last'.content_type \notin allowed_types THEN 400 ELSE 500)
           /\ last'.detail # ""
           /\ session_documents' = session_documents)]_vars

\* a failed extraction for a session that has no entry in the store
C27_Witness ==
    /\ last.op = "upload" /\ last.status = 500 /\ last.extraction = "failed"
    /\ last.detail = "Failed to extract text: analysis failed"
    /\ last.session_id \notin DOMAIN session_documents

Scores(results) == [i \in 1..Len(results) |-> results[i].score]

\* the request runs the comparison branch of the selection
ComparisonSelection ==
    /\ ChatDone /\ last.flags.comparison
    /\ last.session_context # <<>> /\ last.indexed_results # <<>>

\* the scenario of C13: a comparison request of a session with uploads whose
\* search returned results scored 4.0, 3.0 and 1.0
ScenarioScores == ComparisonSelection /\ Scores(last.indexed_results) = <<40, 30, 10>>

\* C13 as claimed: in the scenario the selected context is the uploaded
\* documents plus only the result scored 4.0.
C13_OnlyTopResult ==
    ScenarioScores =>
        last.all_context = last.session_context \o <<last.indexed_results[1]>>

\* C13 as amended: in the scenario the selected context is the uploaded
\* documents plus the results scored 4.0 and 3.0, which both exceed 2.5; the
\* result scored 1.0 is left out.
C13_ResultsAboveFloor ==
    ScenarioScores =>
        last.all_context =
            last.session_context \o <<last.indexed_results[1], last.indexed_results[2]>>

\* the scenario with one uploaded document: a context of three documents
C13_Witness ==
    /\ ScenarioScores
    /\ Len(last.session_context) = 1
    /\ Len(last.all_context) = 3
    /\ last.context = last.all_context

\* q is p with some elements left out, the others in p's order
RECURSIVE IsSubsequence(_, _)
IsSubsequence(q, p) ==
    IF q = <<>> THEN TRUE
    ELSE IF p = <<>> THEN FALSE
    ELSE IF Head(q) = Head(p) THEN IsSubsequence(Tail(q), Tail(p))
    ELSE IsSubsequence(q, Tail(p))

\* C14: in comparison mode with both pools non-empty the selected context is
\* all uploaded documents followed by at most 3 indexed results, each scored
\* above 2.5.
C14_ComparisonSelection ==
    ComparisonSelection =>
        LET kept == company_docs(last.all_context)
        IN  /\ last.all_context = last.session_context \o kept
            /\ Len(kept) <= ComparisonTop
            /\ IsSubsequence(kept, last.indexed_results)
            /\ \A i \in 1..Len(kept) : kept[i].score > ComparisonMinScore

\* a comparison request whose search returned a result scored 1.0 and two
\* better ones: the two are kept, the third is not
C14_Witness ==
    /\ ComparisonSelection
    /\ \E i \in 1..Len(last.indexed_results) :
          last.indexed_results[i].score <= ComparisonMinScore
    /\ Len(company_docs(last.all_context)) = 2

RECURSIVE InsertByScore(_, _)
\* doc put into a list sorted by descending score, after the entries whose
\* score is not smaller
InsertByScore(sorted, doc) ==
    IF sorted = <<>> THEN <<doc>>
    ELSE IF Head(sorted).score >= doc.score
    THEN <<Head(sorted)>> \o InsertByScore(Tail(sorted), doc)
    ELSE <<doc>> \o sorted

RECURSIVE SortedByScore(_)
\* the stable sort by descending score
SortedByScore(results) ==
    IF results = <<>> THEN <<>>
    ELSE InsertByScore(SortedByScore(SubSeq(results, 1, Len(results) - 1)),
                       results[Len(results)])

\* C15: where the selection keeps the top K indexed results (3 in comparison
\* mode, 2 in default mode), the kept ones are the K highest-scoring results
\* above the floor, in descending score order, ties in retrieval order.
C15_TopKByScore ==
    (/\ ChatDone /\ ~last.flags.policy_only
     /\ last.session_context # <<>> /\ last.indexed_results # <<>>) =>
        company_docs(last.all_context) =
            IF last.flags.comparison
            THEN Take(SortedByScore(ScoreAbove(last.indexed_results, ComparisonMinScore)),
                      ComparisonTop)
            ELSE Take(SortedByScore(ScoreAbove(last.indexed_results, DefaultMinScore)),
                      DefaultTop)

\* C16: the context passed to generation holds at most 5 documents, and in
\* it every uploaded document precedes every indexed document.
C16_CappedUploadsFirst ==
    ChatDone =>
        /\ Len(last.context) <= MaxContextDocs
        /\ \A i, j \in 1..Len(last.context) :
              (last.context[i].source_type = "uploaded"
               /\ last.context[j].source_type = "company") => i < j

\* a selection of more than five documents of both kinds, cut to five that
\* still hold both kinds
C16_Witness ==
    /\ ChatDone
    /\ Len(last.all_context) > MaxContextDocs
    /\ Len(last.context) = MaxContextDocs
    /\ uploaded_docs(last.context) # <<>>
    /\ company_docs(last.context) # <<>>

\* C17: when the search client fails during a chat request of a session that
\* has uploaded documents, the request is answered and the context passed to
\* generation holds the session's documents, for every intent that searches.
C17_SearchFailureKeepsUploads ==
    (ChatDone /\ last.searched /\ last.client_failures > 0 /\ last.has_uploaded_docs) =>
        /\ last.status = 200
        /\ uploaded_docs(last.context) = Take(StoredContext, MaxContextDocs)

\* C18: search returns a list to its caller whatever the search client does:
\* a failure of the hybrid call leads to exactly one keyword call, and a
\* failure of that call to the empty list.
C18_SearchNeverRaises ==
    (ChatDone /\ last.searched) =>
        /\ last.status = 200
        /\ last.client_calls = (IF last.client_failures = 0 THEN 1 ELSE 2)
        /\ last.client_failures <= last.client_calls
        /\ (last.client_failures = 2 => last.indexed_results = <<>>)

\* both calls of the search client failed and the request was answered
C18_Witness ==
    /\ ChatDone /\ last.searched
    /\ last.client_failures = 2
    /\ last.client_calls = 2
    /\ last.indexed_results = <<>>
    /\ last.generated

\* C19: when the generation call fails the response is the fixed apology
\* with no sources and the request's session id; the request is not failed,
\* and no turn is stored.
C19_GenerationFailureApology ==
    (ChatDone /\ ~last.generated) =>
        /\ last.status = 200
        /\ last.answer = ApologyAnswer
        /\ last.sources = <<>>
        /\ last.response_session_id = last.session_id

\* a failed generation for a request that had context
C19_Witness ==
    /\ ChatDone /\ ~last.generated
    /\ last.context # <<>>
    /\ last.answer = ApologyAnswer
    /\ last.sources = <<>>

-----------------------------------------------------------------------------
(* Properties of the citation specifications *)

PromptBuilt == last.op \in {"cite_built", "cite_done", "cite_returned"}

CitationsExtracted == last.op = "cite_done"

\* the documents in render order: the uploaded block, then the company block
RenderOrder(context) == uploaded_docs(context) \o company_docs(context)

DistinctFilenames(context) ==
    \A i, j \in 1..Len(context) : context[i].filename = context[j].filename => i = j

\* C6: the citation map has exactly one entry per context document, carrying
\* that document's filename and source type; stated for the contexts whose
\* documents have pairwise different filenames, the case the claim singles out.
C6_OneEntryPerDocument ==
    (PromptBuilt /\ DistinctFilenames(last.context)) =>
        /\ DOMAIN last.doc_mapping = 1..Len(last.context)
        /\ \A i \in DOMAIN last.doc_mapping :
              /\ i \in 1..Len(last.context)
              /\ last.doc_mapping[i].filename = RenderOrder(last.context)[i].filename
              /\ last.doc_mapping[i].type = RenderOrder(last.context)[i].source_type

\* the documents the assembler renders: the uploaded ones and one per group
RenderedCount(context) == Len(uploaded_docs(context)) + Len(parent_groups(context))

\* C7: the keys of the citation map are exactly 1..n for the n documents
\* rendered, in render order, and every uploaded document's key is smaller
\* than every company document's key.
C7_ContiguousKeys ==
    PromptBuilt =>
        /\ DOMAIN last.doc_mapping = 1..RenderedCount(last.context)
        /\ \A i \in DOMAIN last.doc_mapping :
              i <= Len(uploaded_docs(last.context)) =>
                  /\ last.doc_mapping[i].type = "uploaded"
                  /\ last.doc_mapping[i].filename = uploaded_docs(last.context)[i].filename
        /\ \A i, j \in DOMAIN last.doc_mapping :
              (last.doc_mapping[i].type = "uploaded" /\ last.doc_mapping[j].type = "company")
                  => i < j

\* two uploaded documents and a company document, mapped to 1, 2 and 3
C7_Witness ==
    /\ PromptBuilt
    /\ Len(uploaded_docs(last.context)) = 2
    /\ company_docs(last.context) # <<>>
    /\ DOMAIN last.doc_mapping = 1..3
    /\ last.doc_mapping[3].type = "company"

\* C8: the citation_number values of the returned list are 1..k in order.
C8_SequentialNumbers ==
    CitationsExtracted =>
        \A i \in 1..Len(last.sources) : last.sources[i].citation_number = i

\* the indices of the map that a text cites
ValidCited(response_text, doc_mapping) ==
    {CitedNumbersOf[response_text][i] : i \in 1..Len(CitedNumbersOf[response_text])}
        \cap DOMAIN doc_mapping

\* C9: the returned list holds no two entries for the same index of the map:
\* it has one entry per index the text cites validly.
C9_Deduplicated ==
    CitationsExtracted =>
        Len(last.sources) = Cardinality(ValidCited(last.response_text, last.doc_mapping))

CitedSet(response_text) ==
    {CitedNumbersOf[response_text][i] : i \in 1..Len(CitedNumbersOf[response_text])}

\* C10: two texts that cite the same set of indices yield the same list.
C10_SameSetSameSources ==
    (last.op = "pair_done" /\ CitedSet(last.text_a) = CitedSet(last.text_b)) =>
        last.sources_a = last.sources_b

\* the (filename, type) pairs of a source list
SourcePairs(sources) ==
    {<<sources[i].filename, sources[i].type>> : i \in 1..Len(sources)}

\* the pairs of the map entries a text cites validly
ValidPairs(response_text, doc_mapping) ==
    {<<Icon(doc_mapping[n].type) \o " " \o doc_mapping[n].filename, doc_mapping[n].type>> :
        n \in ValidCited(response_text, doc_mapping)}

\* C11: a marker whose index is no key of the citation map is dropped: the
\* extractor returns a list (it does not fail), the list has no entry for
\* such a marker, and every validly cited map entry still has its entry.
C11_InvalidMarkerDropped ==
    CitationsExtracted =>
        /\ SourcePairs(last.sources) = ValidPairs(last.response_text, last.doc_mapping)
        /\ (ValidCited(last.response_text, last.doc_mapping) = {} => last.sources = <<>>)

\* a text citing an index of the map and an index outside it: one entry
C11_Witness ==
    /\ CitationsExtracted
    /\ CitedSet(last.response_text) \ DOMAIN last.doc_mapping # {}
    /\ ValidCited(last.response_text, last.doc_mapping) # {}
    /\ Len(last.sources) = 1

Returned == last.op = "cite_returned"

Filenames(context) == {context[i].filename : i \in 1..Len(context)}

\* the position at which a filename first occurs in a context
FirstIndex(context, filename) ==
    CHOOSE i \in 1..Len(context) :
        /\ context[i].filename = filename
        /\ \A j \in 1..(i - 1) : context[j].filename # filename

\* C12: when the generated text yields no valid citation and the context is
\* not empty, the returned list has one entry per distinct filename of the
\* context, numbered 1..m in context order; so a returned list is empty only
\* when the context is.
C12_FallbackPerFilename ==
    Returned =>
        /\ (last.cited = <<>> /\ last.context # <<>>) =>
              /\ Len(last.sources) = Cardinality(Filenames(last.context))
              /\ \A i \in 1..Len(last.sources) :
                    /\ last.sources[i].citation_number = i
                    /\ \E f \in Filenames(last.context) :
                          /\ last.sources[i].filename =
                                 Icon(last.context[FirstIndex(last.context, f)].source_type)
                                 \o " " \o f
                          /\ last.sources[i].type =
                                 last.context[FirstIndex(last.context, f)].source_type
                          /\ Cardinality({g \in Filenames(last.context) :
                                 FirstIndex(last.context, g) <= FirstIndex(last.context, f)}) = i
        /\ (last.context # <<>> => last.sources # <<>>)

\* a context of three documents with two filenames and a text that cites
\* nothing valid: two entries
C12_Witness ==
    /\ Returned
    /\ last.cited = <<>>
    /\ CitedSet(last.response_text) # {}
    /\ Len(last.context) = 3
    /\ Cardinality(Filenames(last.context)) = 2
    /\ Len(last.sources) = 2

-----------------------------------------------------------------------------
(* Properties of the classifier specification *)

Intents == {"casual", "upload_only", "policy_only", "comparison"}

\* C20: the value classify_intent returns is a dict whose "intent" is one of
\* casual, upload_only, policy_only, comparison, whatever the classification
\* call returns.
C20_IntentInEnum ==
    last.op = "intent_done" =>
        /\ last.result.kind = "object"
        /\ "intent" \in DOMAIN last.result.fields
        /\ last.result.fields["intent"].kind = "string"
        /\ last.result.fields["intent"].text \in Intents

\* the classification call raised, or returned what json.loads rejects
ClassificationFailed(output) ==
    \/ ~output.ok
    \/ ~output.has_content
    \/ ParsedContent[output.content].kind = "error"

\* C21: when the classification call raises or its output is not JSON,
\* classify_intent returns {"intent": "policy_only", "confidence": 0.5}; the
\* exception does not reach the caller.
C21_FailureDefaultsToPolicyOnly ==
    (last.op = "intent_done" /\ ClassificationFailed(last.output)) =>
        /\ last.result.kind = "object"
        /\ DOMAIN last.result.fields = {"intent", "confidence"}
        /\ last.result.fields["intent"] = JsonValue("string", "policy_only")
        /\ last.result.fields["confidence"] = JsonValue("number", "0.5")

\* an output cut off in the middle of its JSON object, answered policy_only
C21_Witness ==
    /\ last.op = "intent_done"
    /\ last.output.ok /\ last.output.has_content
    /\ Len(last.output.content) > 0
    /\ Char(last.output.content, 1) = "{"
    /\ ParsedContent[last.output.content].kind = "error"
    /\ last.result.fields["intent"].text = "policy_only"

-----------------------------------------------------------------------------
(* Properties of the prompt text *)

RECURSIVE Flatten(_)
Flatten(seqs) == IF seqs = <<>> THEN <<>> ELSE Head(seqs) \o Flatten(Tail(seqs))

\* the rendered pieces of the company documents of a prompt, in order
CompanyChunks(prompt) ==
    Flatten([g \in 1..Len(prompt.context_text.company) |->
                prompt.context_text.company[g].chunks])

UploadedChunks(prompt) ==
    Flatten([i \in 1..Len(prompt.context_text.uploaded) |->
                prompt.context_text.uploaded[i].chunks])

\* C24: whenever an indexed document is shown in the prompt with fewer
\* characters than the search client returned for it, the prompt carries the
\* truncation line with the original length.
C24_TruncationNeverSilent ==
    ChatDone =>
        \A i \in 1..Len(CompanyChunks(last.prompt)) :
            \A h \in 1..Len(last.hits) :
                LET chunk == CompanyChunks(last.prompt)[i]
                    hit   == last.hits[h]
                IN  (HybridFilename(hit) = chunk.filename /\ chunk.shown < hit.content) =>
                        (chunk.marker /\ chunk.original_length = hit.content)

PromptAssembled == last.op = "prompt_built"

\* C25: the assembler shows the first 10,000 characters of an indexed
\* document's content and emits the truncation line, with the content's
\* length, if and only if the content is longer than 10,000 characters; an
\* uploaded document's content is shown in full, with no truncation line.
C25_MarkerIffOverLimit ==
    PromptAssembled =>
        LET company  == company_docs(last.context)
            uploaded == uploaded_docs(last.context)
            cchunks  == CompanyChunks(last.prompt)
            uchunks  == UploadedChunks(last.prompt)
        IN  /\ Len(cchunks) = Len(company)
            /\ \A i \in 1..Len(company) :
                  /\ cchunks[i].shown = Min(company[i].content, PromptContentLimit)
                  /\ cchunks[i].marker <=> (company[i].content > PromptContentLimit)
                  /\ cchunks[i].marker => cchunks[i].original_length = company[i].content
            /\ Len(uchunks) = Len(uploaded)
            /\ \A i \in 1..Len(uploaded) :
                  /\ uchunks[i].shown = uploaded[i].content
                  /\ ~uchunks[i].marker

\* an uploaded document and an indexed document, both longer than 10,000
\* characters: the first shown in full, the second cut with the line
C25_Witness ==
    /\ PromptAssembled
    /\ \E i \in 1..Len(UploadedChunks(last.prompt)) :
          UploadedChunks(last.prompt)[i].shown > PromptContentLimit
    /\ \E i \in 1..Len(CompanyChunks(last.prompt)) :
          /\ CompanyChunks(last.prompt)[i].marker
          /\ CompanyChunks(last.prompt)[i].shown = PromptContentLimit
          /\ CompanyChunks(last.prompt)[i].original_length = 25000

-----------------------------------------------------------------------------
(* Properties of the concurrent uploads *)

Count(S) == Cardinality(S)

UploadsAllDone ==
    requests # <<>> /\ \A rid \in DOMAIN requests : requests[rid].stage = "done"

\* the requests that completed with the document stored
StoredUploads(session_id, filename) ==
    {rid \in DOMAIN requests :
        /\ requests[rid].stage = "done" /\ requests[rid].status = 200
        /\ requests[rid].session_id = session_id
        /\ requests[rid].file.filename = filename}

\* the positions of a session's list that hold a document of that filename
StoredDocuments(session_id, filename) ==
    IF session_id \in DOMAIN session_documents
    THEN {i \in 1..Len(session_documents[session_id]) :
             session_documents[session_id][i].filename = filename}
    ELSE {}

\* C23: a request whose collaborator never answers still completes: every
\* upload waiting for its extraction call is eventually done.
C23_WaitingRequestCompletes ==
    \A rid \in 1..MaxUploadRequests :
        (rid \in DOMAIN requests /\ requests[rid].stage = "waiting")
            ~> (rid \in DOMAIN requests /\ requests[rid].stage = "done")

\* C28: once all concurrent uploads of a session have completed (no cleanup
\* having run), the session's list holds one document for every upload whose
\* extraction succeeded, and nothing else.
C28_NoUploadLost ==
    UploadsAllDone =>
        \A sid \in SessionIds : \A file \in AsyncFiles :
            Count(StoredDocuments(sid, file.filename))
                = Count(StoredUploads(sid, file.filename))

\* three uploads that all succeeded, stored in another order than they began
C28_Witness ==
    /\ UploadsAllDone
    /\ Len(requests) = 3
    /\ \A rid \in DOMAIN requests : requests[rid].status = 200
    /\ requests[1].file.filename = "lease.pdf"
    /\ requests[2].file.filename = "notice.txt"
    /\ Len(session_documents[requests[1].session_id]) = 3
    /\ session_documents[requests[1].session_id][1].filename = "notice.txt"

-----------------------------------------------------------------------------
(* Properties of the concurrent chats *)

\* the turns a history holds for a session
Turns(history, session_id) ==
    IF session_id \in DOMAIN history THEN history[session_id] ELSE <<>>

\* C26: the messages of a generation call are the system prompt, then for
\* every turn the session's history holds at that time, in order, its query
\* as a user message and its response as an assistant message, then the
\* current user prompt.
C26_AllPriorTurnsSent ==
    [][\A rid \in (DOMAIN requests') \ (DOMAIN requests) :
          LET r == requests'[rid]
              h == Turns(conversation_history', r.session_id)
              m == r.messages
          IN  /\ Len(m) = 2 * Len(h) + 2
              /\ m[1].role = "system"
              /\ m[1].content = SystemPrompt(r.has_uploads)
              /\ \A i \in 1..Len(h) :
                    /\ m[2 * i].role = "user"
                    /\ m[2 * i].content = h[i].query
                    /\ m[2 * i + 1].role = "assistant"
                    /\ m[2 * i + 1].content = h[i].response
              /\ m[Len(m)].role = "user"
              /\ m[Len(m)].content = r.user_prompt]_vars

\* a request begun on a history of three turns, one of them stored by a
\* request of this run
C26_Witness ==
    \E rid \in DOMAIN requests :
        /\ requests[rid].kind = "chat"
        /\ Len(requests[rid].messages) = 8
        /\ requests[rid].messages[6].role = "user"
        /\ requests[rid].messages[6].content = requests[1].query

ChatsAllDone ==
    requests # <<>> /\ \A rid \in DOMAIN requests : requests[rid].stage = "done"

\* the requests of a session whose generation succeeded with that turn
SucceededChats(session_id, turn) ==
    {rid \in DOMAIN requests :
        /\ requests[rid].stage = "done" /\ requests[rid].generated
        /\ requests[rid].session_id = session_id
        /\ requests[rid].query = turn.query
        /\ requests[rid].answer = turn.response}

\* C29: once all concurrent chat requests have completed, each session's
\* history is the history of the start followed by exactly one turn per
\* request whose generation succeeded: none lost, none twice.
C29_OneTurnPerSuccess ==
    ChatsAllDone =>
        \A sid \in AsyncSessionIds :
            LET before == Turns(last.conversation_history, sid)
                after  == Turns(conversation_history, sid)
                added  == SubSeq(after, Len(before) + 1, Len(after))
            IN  /\ Len(after) >= Len(before)
                /\ SubSeq(after, 1, Len(before)) = before
                /\ Len(added) = Cardinality({rid \in DOMAIN requests :
                                    requests[rid].generated
                                    /\ requests[rid].session_id = sid})
                /\ \A i \in 1..Len(added) :
                      Cardinality({j \in 1..Len(added) : added[j] = added[i]})
                          = Cardinality(SucceededChats(sid, added[i]))

\* two requests of one session that both succeeded, the second one first
C29_Witness ==
    /\ ChatsAllDone
    /\ Len(requests) = 2
    /\ requests[1].session_id = requests[2].session_id
    /\ requests[1].generated /\ requests[2].generated
    /\ requests[1].query # requests[2].query
    /\ LET after == conversation_history[requests[1].session_id]
       IN  /\ Len(after) >= 2
           /\ after[Len(after)].query = requests[1].query
           /\ after[Len(after) - 1].query = requests[2].query

\* C30: a chat request whose generation fails leaves the turns of every
\* history as they were; one whose generation succeeds appends the pair
\* (raw query, generated answer) at the end of its session's history and
\* changes nothing else of any history.
C30_HistoryFrame ==
    [][/\ (DOMAIN requests' # DOMAIN requests) =>
             \A sid \in AsyncSessionIds :
                 Turns(conversation_history', sid) = Turns(conversation_history, sid)
       /\ \A rid \in DOMAIN requests :
             (rid \in DOMAIN requests'
              /\ requests[rid].stage = "waiting" /\ requests'[rid].stage = "done") =>
                 IF requests'[rid].generated
                 THEN conversation_history' =
                          [conversation_history EXCEPT ![requests[rid].session_id] =
                              Append(@, [query    |-> requests[rid].query,
                                         response |-> requests'[rid].answer])]
                 ELSE conversation_history' = conversation_history]_vars

\* a failed request on the two earlier turns of s1 and a successful request
\* of s2
C30_Witness ==
    /\ ChatsAllDone
    /\ \E a, b \in DOMAIN requests :
          /\ requests[a].session_id = "s1" /\ ~requests[a].generated
          /\ requests[a].answer = ApologyAnswer
          /\ requests[b].session_id = "s2" /\ requests[b].generated
    /\ Len(conversation_history["s1"]) = 2
    /\ conversation_history["s1"] = last.conversation_history["s1"]
    /\ Len(conversation_history["s2"]) = 1

====
